---- MODULE Spec2Model ----
(***************************************************************************)
(* Model of python-training:                                               *)
(*   fibo-features.py  _safe_div, _update_pivot, _form_abc,                *)
(*                     compute_fib_features        (Spec, SpecSwing)       *)
(*   ppo_env.py        PPOTickEnv.reset, step      (SpecEnv, SpecTrend)    *)
(*   reward.py         reward_function                                     *)
(*   tp_sl_suggest.py  build_tp_sl_suggestions, selection and guard rails  *)
(*                                                 (SpecSuggest)           *)
(*   main.py           train_model, select_available_gpu,                  *)
(*                     symbol_currently_running, run_training              *)
(*                                       (SpecServer, SpecServerFair)      *)
(* Each specification runs one of the four parts and holds the variables   *)
(* of the other three at their idle values.                                *)
(*                                                                         *)
(* Numbers of fibo-features.py.  Closes are integers (price units).  A     *)
(* float that may be NaN                                                   *)
(* is a sequence: <<>> is NaN, <<n>> is the number n.  A volatility is     *)
(* held in millionths (so the epsilon 1e-6 of line 68 is <<1>>), a         *)
(* Fibonacci level in thousandths of a price unit (so R*1.272 is R*1272).  *)
(* A feature value x/a is the exact fraction <<num, den>> with             *)
(* num = x (thousandths) * 1000 and den = a (millionths); <<>> is NaN.     *)
(***************************************************************************)
EXTENDS Integers, Sequences, FiniteSets

VARIABLES
    fpc,              \* position in compute_fib_features: "idle" | "loop" | "done"
    i,                \* number of bars processed (the next loop index)
    direction,        \* swing direction: 0 unset, +1 up, -1 down
    last_pivot_price, \* anchor price of the current swing
    piv_types,        \* list of pivot types, "H" | "L"
    piv_prices,       \* list of pivot prices
    c,                \* close of the last processed bar
    a,                \* volatility used at the last processed bar
    atr_cur,          \* df["atr"].iloc[i-1] seen from the next bar: the raw atr of the last processed bar
    row,              \* the 12 feature cells written by the loop at the last processed bar
    ffilled,          \* the forward fill of the 12 columns at the last processed bar
    emitted,          \* new_type returned by _update_pivot at the last processed bar
    last_pos_atr,     \* history: most recent positive raw atr up to the last processed bar
    trend             \* history: shape of the close/atr series read so far

fibVars == <<fpc, i, direction, last_pivot_price, piv_types, piv_prices, c, a,
             atr_cur, row, ffilled, emitted, last_pos_atr, trend>>

(* PPOTickEnv (ppo_env.py) *)
VARIABLES
    frame,       \* the family self.df is drawn from (its rows are drawn when first read)
    env_n,       \* self.n
    env_i,       \* self.i
    epc,         \* position in the env: "idle" (no env under study) | "ready" | "scan"
    entry,       \* the locals of step() for the trade being simulated
    j,           \* scan index of the while loop
    nxt,         \* self.df.iloc[j], the bar the loop examines next
    scan,        \* history: the bars the loop has examined for this trade
    exit_price,  \* exit_price local of step()
    result,      \* what the last call of step() returned
    steps,       \* history: the calls of step() since reset() that did not terminate
    last_exit    \* history: the exit bar of the last trade since reset(), or -1

envVars == <<frame, env_n, env_i, epc, entry, j, nxt, scan, exit_price, result,
            steps, last_exit>>

(* build_tp_sl_suggestions (tp_sl_suggest.py), one row at a time *)
VARIABLES
    spc,                \* position in the row: "idle" | "row" | "tp" | "sl" | "clip"
    conf_dir,           \* conf_dir of the row
    dists,              \* candidate label -> its distance + eps for the row
    mat,                \* the column of tp_mat / sl_mat of the row, last stacked
    tp_source,
    sl_source,
    tp_best,
    sl_best,
    tp_mult_suggested,  \* out["tp_mult_suggested"] of the row
    sl_mult_suggested   \* out["sl_mult_suggested"] of the row

sugVars == <<spc, conf_dir, dists, mat, tp_source, sl_source, tp_best, sl_best,
             tp_mult_suggested, sl_mult_suggested>>

(* The training server (main.py) *)
VARIABLES
    active_jobs,     \* active_jobs: job id -> the fields status, symbol, device
    gpu_jobs,        \* gpu_jobs: device -> number of jobs
    cuda_available,  \* torch.cuda.is_available(), import included
    tasks,           \* the background tasks added by train_model that have not
                     \* ended, in order of acceptance: their arguments, with
                     \* their phase and whether a final status was written
    run,             \* the task that holds the event loop and its position
    response,        \* the answer of the POST /train served by the last step
    now,             \* datetime.utcnow(), in seconds
    accepted         \* history: number of jobs accepted by POST /train

srvVars == <<active_jobs, gpu_jobs, cuda_available, tasks, run, response, now,
             accepted>>

vars == <<fibVars, envVars, sugVars, srvVars>>

---------------------------------------------------------------------------
(* Bounds of the model *)

MaxBars == 5

(* Program constants *)

UNSET == 0
UP == 1
DOWN == 0 - 1
AtrMult == 3
Milli == 1000
Micro == 1000000
ClipBound == 50
Ext127 == 1272
Ext161 == 1618
Ext200 == 2000
Ret236 == 236
Ret382 == 382
Ret500 == 500
Ret618 == 618
Ret786 == 786

NaN == <<>>
Num(n) == <<n>>
IsNaN(x) == x = <<>>
Epsilon == Num(1)

(* Input alphabet: the closes and raw atr values a bar may carry. *)
Closes == {1, 7, 14, 15}
AtrValues == {NaN, Num(0), Num(Micro \div 10), Num(2 * Micro)}

FIB_FEATURE_COLS ==
    {"fib_ext_127", "fib_ext_161", "fib_ext_200", "fib_ret_236",
     "fib_ret_382", "fib_ret_500", "fib_ret_618", "fib_ret_786"}

SR_FEATURE_COLS ==
    {"sr_support_1_dist", "sr_support_2_dist",
     "sr_resistance_1_dist", "sr_resistance_2_dist"}

AllCols == FIB_FEATURE_COLS \cup SR_FEATURE_COLS

---------------------------------------------------------------------------
(* Float helpers *)

\* x > 0 on a float that may be NaN (a comparison with NaN is False)
IsPos(x) == ~IsNaN(x) /\ x[1] > 0

\* d > rev, d a price difference in price units, rev in millionths, maybe NaN
GtRev(d, rev) == ~IsNaN(rev) /\ d * Micro > rev[1]

\* atr_mult * a
Rev(vol) == IF IsNaN(vol) THEN NaN ELSE Num(AtrMult * vol[1])

Abs(x) == IF x < 0 THEN 0 - x ELSE x

\* _safe_div(x, y): x in thousandths of a price unit, y a volatility
SafeDiv(x, y) ==
    IF IsNaN(y) THEN NaN
    ELSE IF y[1] = 0 THEN NaN
    ELSE <<x * Milli, y[1]>>

---------------------------------------------------------------------------
(* Mutants of _update_pivot *)

\* the unset state seeds an up swing
UpdatePivotSeedUp(dir, last, cl, rev) ==
    IF dir = 0
    THEN [direction |-> 1, last_pivot_price |-> cl,
          new_type |-> "None", reversed_flag |-> FALSE]
    ELSE IF dir >= 0
    THEN IF cl > last
         THEN [direction |-> 1, last_pivot_price |-> cl,
               new_type |-> "None", reversed_flag |-> FALSE]
         ELSE IF GtRev(last - cl, rev)
         THEN [direction |-> 0 - 1, last_pivot_price |-> cl,
               new_type |-> "H", reversed_flag |-> TRUE]
         ELSE [direction |-> dir, last_pivot_price |-> last,
               new_type |-> "None", reversed_flag |-> FALSE]
    ELSE IF cl < last
         THEN [direction |-> 0 - 1, last_pivot_price |-> cl,
               new_type |-> "None", reversed_flag |-> FALSE]
         ELSE IF GtRev(cl - last, rev)
         THEN [direction |-> 1, last_pivot_price |-> cl,
               new_type |-> "L", reversed_flag |-> TRUE]
         ELSE [direction |-> dir, last_pivot_price |-> last,
               new_type |-> "None", reversed_flag |-> FALSE]

\* the up swing reverses at >= rev instead of > rev
UpdatePivotGe(dir, last, cl, rev) ==
    IF dir = 0
    THEN [direction |-> 0, last_pivot_price |-> cl,
          new_type |-> "None", reversed_flag |-> FALSE]
    ELSE IF dir >= 0
    THEN IF cl > last
         THEN [direction |-> 1, last_pivot_price |-> cl,
               new_type |-> "None", reversed_flag |-> FALSE]
         ELSE IF ~IsNaN(rev) /\ (last - cl) * Micro >= rev[1]
         THEN [direction |-> 0 - 1, last_pivot_price |-> cl,
               new_type |-> "H", reversed_flag |-> TRUE]
         ELSE [direction |-> dir, last_pivot_price |-> last,
               new_type |-> "None", reversed_flag |-> FALSE]
    ELSE IF cl < last
         THEN [direction |-> 0 - 1, last_pivot_price |-> cl,
               new_type |-> "None", reversed_flag |-> FALSE]
         ELSE IF ~IsNaN(rev) /\ (cl - last) * Micro >= rev[1]
         THEN [direction |-> 1, last_pivot_price |-> cl,
               new_type |-> "L", reversed_flag |-> TRUE]
         ELSE [direction |-> dir, last_pivot_price |-> last,
               new_type |-> "None", reversed_flag |-> FALSE]

\* the last pivot's type is read at index 0 instead of -1
RecordPivotFirstIndex(types, prices, u) ==
    IF u.reversed_flag /\ u.new_type # "None"
    THEN IF types = <<>> \/ types[1] # u.new_type
         THEN [types |-> Append(types, u.new_type),
               prices |-> Append(prices, u.last_pivot_price)]
         ELSE [types |-> [types EXCEPT ![Len(types)] = u.new_type],
               prices |-> [prices EXCEPT ![Len(prices)] = u.last_pivot_price]]
    ELSE [types |-> types, prices |-> prices]

---------------------------------------------------------------------------
(* _update_pivot(direction, last_pivot_price, c, rev) *)

\* mutant: a reversal emits its pivot but keeps the direction
UpdatePivotNoFlip(dir, last, cl, rev) ==
    IF dir = UNSET
    THEN [direction |-> UNSET, last_pivot_price |-> cl,
          new_type |-> "None", reversed_flag |-> FALSE]
    ELSE IF dir >= 0
    THEN IF cl > last
         THEN [direction |-> UP, last_pivot_price |-> cl,
               new_type |-> "None", reversed_flag |-> FALSE]
         ELSE IF GtRev(last - cl, rev)
         THEN [direction |-> UP, last_pivot_price |-> cl,
               new_type |-> "H", reversed_flag |-> TRUE]
         ELSE [direction |-> dir, last_pivot_price |-> last,
               new_type |-> "None", reversed_flag |-> FALSE]
    ELSE IF cl < last
         THEN [direction |-> DOWN, last_pivot_price |-> cl,
               new_type |-> "None", reversed_flag |-> FALSE]
         ELSE IF GtRev(cl - last, rev)
         THEN [direction |-> DOWN, last_pivot_price |-> cl,
               new_type |-> "L", reversed_flag |-> TRUE]
         ELSE [direction |-> dir, last_pivot_price |-> last,
               new_type |-> "None", reversed_flag |-> FALSE]

UpdatePivot(dir, last, cl, rev) ==
    IF dir = UNSET
    THEN [direction |-> UNSET, last_pivot_price |-> cl,
          new_type |-> "None", reversed_flag |-> FALSE]
    ELSE IF dir >= 0
    THEN IF cl > last
         THEN [direction |-> UP, last_pivot_price |-> cl,
               new_type |-> "None", reversed_flag |-> FALSE]
         ELSE IF GtRev(last - cl, rev)
         THEN [direction |-> DOWN, last_pivot_price |-> cl,
               new_type |-> "H", reversed_flag |-> TRUE]
         ELSE [direction |-> dir, last_pivot_price |-> last,
               new_type |-> "None", reversed_flag |-> FALSE]
    ELSE IF cl < last
         THEN [direction |-> DOWN, last_pivot_price |-> cl,
               new_type |-> "None", reversed_flag |-> FALSE]
         ELSE IF GtRev(cl - last, rev)
         THEN [direction |-> UP, last_pivot_price |-> cl,
               new_type |-> "L", reversed_flag |-> TRUE]
         ELSE [direction |-> dir, last_pivot_price |-> last,
               new_type |-> "None", reversed_flag |-> FALSE]

(* The pivot-list update of compute_fib_features, lines 73-79: u is the   *)
(* record _update_pivot returned; the price stored is the returned        *)
(* last_pivot_price.                                                       *)
RecordPivot(types, prices, u) ==
    IF u.reversed_flag /\ u.new_type # "None"
    THEN IF types = <<>> \/ types[Len(types)] # u.new_type
         THEN [types |-> Append(types, u.new_type),
               prices |-> Append(prices, u.last_pivot_price)]
         ELSE [types |-> [types EXCEPT ![Len(types)] = u.new_type],
               prices |-> [prices EXCEPT ![Len(prices)] = u.last_pivot_price]]
    ELSE [types |-> types, prices |-> prices]

(* The volatility of bar i, line 68: at is df["atr"].iloc[i], prev is     *)
(* df["atr"].iloc[i-1].                                                    *)
BarVol(idx, at, prev) ==
    IF IsPos(at) THEN at ELSE IF idx > 0 THEN prev ELSE Epsilon

---------------------------------------------------------------------------
(* _form_abc(piv_types, piv_prices): None, or the last three pivots *)

FormABC(types, prices) ==
    IF Len(types) < 3
    THEN [some |-> FALSE]
    ELSE [some |-> TRUE,
          A_type |-> types[Len(types) - 2], A |-> prices[Len(prices) - 2],
          B_type |-> types[Len(types) - 1], B |-> prices[Len(prices) - 1],
          C_type |-> types[Len(types)],     C |-> prices[Len(prices)]]

\* mutant: the degenerate range R = 0 is not skipped
FibLevelsNoRangeCheck(abc) ==
    LET R == Abs(abc.B - abc.A) IN
    IF R < 0 THEN [some |-> FALSE]
    ELSE IF abc.A_type = "L" /\ abc.B_type = "H" /\ abc.C_type = "L"
    THEN [some |-> TRUE,
          ext127 |-> abc.C * Milli + R * Ext127,
          ext161 |-> abc.C * Milli + R * Ext161,
          ext200 |-> abc.C * Milli + R * Ext200,
          ret236 |-> abc.B * Milli - R * Ret236,
          ret382 |-> abc.B * Milli - R * Ret382,
          ret500 |-> abc.B * Milli - R * Ret500,
          ret618 |-> abc.B * Milli - R * Ret618,
          ret786 |-> abc.B * Milli - R * Ret786]
    ELSE IF abc.A_type = "H" /\ abc.B_type = "L" /\ abc.C_type = "H"
    THEN [some |-> TRUE,
          ext127 |-> abc.C * Milli - R * Ext127,
          ext161 |-> abc.C * Milli - R * Ext161,
          ext200 |-> abc.C * Milli - R * Ext200,
          ret236 |-> abc.B * Milli + R * Ret236,
          ret382 |-> abc.B * Milli + R * Ret382,
          ret500 |-> abc.B * Milli + R * Ret500,
          ret618 |-> abc.B * Milli + R * Ret618,
          ret786 |-> abc.B * Milli + R * Ret786]
    ELSE [some |-> FALSE]

\* mutant: the H-L-H retracements are taken on the L-H-L side of B
FibLevelsSameSide(abc) ==
    LET R == Abs(abc.B - abc.A) IN
    IF R <= 0 THEN [some |-> FALSE]
    ELSE IF abc.A_type = "L" /\ abc.B_type = "H" /\ abc.C_type = "L"
    THEN [some |-> TRUE,
          ext127 |-> abc.C * Milli + R * Ext127,
          ext161 |-> abc.C * Milli + R * Ext161,
          ext200 |-> abc.C * Milli + R * Ext200,
          ret236 |-> abc.B * Milli - R * Ret236,
          ret382 |-> abc.B * Milli - R * Ret382,
          ret500 |-> abc.B * Milli - R * Ret500,
          ret618 |-> abc.B * Milli - R * Ret618,
          ret786 |-> abc.B * Milli - R * Ret786]
    ELSE IF abc.A_type = "H" /\ abc.B_type = "L" /\ abc.C_type = "H"
    THEN [some |-> TRUE,
          ext127 |-> abc.C * Milli - R * Ext127,
          ext161 |-> abc.C * Milli - R * Ext161,
          ext200 |-> abc.C * Milli - R * Ext200,
          ret236 |-> abc.B * Milli - R * Ret236,
          ret382 |-> abc.B * Milli - R * Ret382,
          ret500 |-> abc.B * Milli - R * Ret500,
          ret618 |-> abc.B * Milli - R * Ret618,
          ret786 |-> abc.B * Milli - R * Ret786]
    ELSE [some |-> FALSE]

(* Lines 98-109: the eight levels of an A-B-C structure, in thousandths   *)
(* of a price unit, or none (the loop continues without writing).         *)
FibLevels(abc) ==
    LET R == Abs(abc.B - abc.A) IN
    IF R <= 0 THEN [some |-> FALSE]
    ELSE IF abc.A_type = "L" /\ abc.B_type = "H" /\ abc.C_type = "L"
    THEN [some |-> TRUE,
          ext127 |-> abc.C * Milli + R * Ext127,
          ext161 |-> abc.C * Milli + R * Ext161,
          ext200 |-> abc.C * Milli + R * Ext200,
          ret236 |-> abc.B * Milli - R * Ret236,
          ret382 |-> abc.B * Milli - R * Ret382,
          ret500 |-> abc.B * Milli - R * Ret500,
          ret618 |-> abc.B * Milli - R * Ret618,
          ret786 |-> abc.B * Milli - R * Ret786]
    ELSE IF abc.A_type = "H" /\ abc.B_type = "L" /\ abc.C_type = "H"
    THEN [some |-> TRUE,
          ext127 |-> abc.C * Milli - R * Ext127,
          ext161 |-> abc.C * Milli - R * Ext161,
          ext200 |-> abc.C * Milli - R * Ext200,
          ret236 |-> abc.B * Milli + R * Ret236,
          ret382 |-> abc.B * Milli + R * Ret382,
          ret500 |-> abc.B * Milli + R * Ret500,
          ret618 |-> abc.B * Milli + R * Ret618,
          ret786 |-> abc.B * Milli + R * Ret786]
    ELSE [some |-> FALSE]

(* Lines 94-118: the Fibonacci cell of column col written at a bar with  *)
(* close cl and volatility vol; a cell not written stays NaN (line 60).    *)
FibCell(col, types, prices, cl, vol) ==
    LET abc == FormABC(types, prices) IN
    IF ~abc.some THEN NaN
    ELSE LET lv == FibLevels(abc) IN
         IF ~lv.some THEN NaN
         ELSE CASE col = "fib_ext_127" -> SafeDiv(lv.ext127 - cl * Milli, vol)
                [] col = "fib_ext_161" -> SafeDiv(lv.ext161 - cl * Milli, vol)
                [] col = "fib_ext_200" -> SafeDiv(lv.ext200 - cl * Milli, vol)
                [] col = "fib_ret_236" -> SafeDiv(cl * Milli - lv.ret236, vol)
                [] col = "fib_ret_382" -> SafeDiv(cl * Milli - lv.ret382, vol)
                [] col = "fib_ret_500" -> SafeDiv(cl * Milli - lv.ret500, vol)
                [] col = "fib_ret_618" -> SafeDiv(cl * Milli - lv.ret618, vol)
                [] col = "fib_ret_786" -> SafeDiv(cl * Milli - lv.ret786, vol)

---------------------------------------------------------------------------
(* Lines 81-92: support / resistance cells *)

SetOf(seq) == {seq[k] : k \in 1..Len(seq)}

\* sorted(S, key = distance to cl)[k], k counted from 0
Closest(S, cl, k) ==
    CHOOSE x \in S : Cardinality({y \in S : Abs(y - cl) < Abs(x - cl)}) = k

\* mutant: a pivot price equal to the close counts as a support
SRCellInclusive(col, prices, cl, vol) ==
    IF prices = <<>> THEN NaN
    ELSE LET lv  == SetOf(prices)
             sup == {x \in lv : x <= cl}
             res == {x \in lv : x > cl}
         IN CASE col = "sr_support_1_dist" ->
                   IF Cardinality(sup) >= 1
                   THEN SafeDiv((cl - Closest(sup, cl, 0)) * Milli, vol) ELSE NaN
              [] col = "sr_support_2_dist" ->
                   IF Cardinality(sup) >= 2
                   THEN SafeDiv((cl - Closest(sup, cl, 1)) * Milli, vol) ELSE NaN
              [] col = "sr_resistance_1_dist" ->
                   IF Cardinality(res) >= 1
                   THEN SafeDiv((Closest(res, cl, 0) - cl) * Milli, vol) ELSE NaN
              [] col = "sr_resistance_2_dist" ->
                   IF Cardinality(res) >= 2
                   THEN SafeDiv((Closest(res, cl, 1) - cl) * Milli, vol) ELSE NaN

SRCell(col, prices, cl, vol) ==
    IF prices = <<>> THEN NaN
    ELSE LET lv  == SetOf(prices)
             sup == {x \in lv : x < cl}
             res == {x \in lv : x > cl}
         IN CASE col = "sr_support_1_dist" ->
                   IF Cardinality(sup) >= 1
                   THEN SafeDiv((cl - Closest(sup, cl, 0)) * Milli, vol) ELSE NaN
              [] col = "sr_support_2_dist" ->
                   IF Cardinality(sup) >= 2
                   THEN SafeDiv((cl - Closest(sup, cl, 1)) * Milli, vol) ELSE NaN
              [] col = "sr_resistance_1_dist" ->
                   IF Cardinality(res) >= 1
                   THEN SafeDiv((Closest(res, cl, 0) - cl) * Milli, vol) ELSE NaN
              [] col = "sr_resistance_2_dist" ->
                   IF Cardinality(res) >= 2
                   THEN SafeDiv((Closest(res, cl, 1) - cl) * Milli, vol) ELSE NaN

---------------------------------------------------------------------------
(* Line 122: ffill().fillna(0).clip(-50, 50), column by column.  The       *)
(* forward fill of a column at row i is the cell of row i when it is not   *)
(* NaN and the forward fill at row i-1 otherwise, so the pass carries the  *)
(* filled row along with the loop.                                         *)

FFill(prev, cells) ==
    [col \in AllCols |-> IF IsNaN(cells[col]) THEN prev[col] ELSE cells[col]]

FillNa(x) == IF IsNaN(x) THEN <<0, 1>> ELSE x

\* mutant: only the upper bound is applied
ClipUpperOnly(x) ==
    IF x[1] > ClipBound * x[2] THEN <<ClipBound, 1>> ELSE x

Clip(x) ==
    IF x[1] > ClipBound * x[2] THEN <<ClipBound, 1>>
    ELSE IF x[1] < (0 - ClipBound) * x[2] THEN <<0 - ClipBound, 1>>
    ELSE x

\* one cell of the returned frame's row for the last processed bar
OutCell(col) == Clip(FillNa(ffilled[col]))

\* the returned frame's row for the last processed bar
OutRow == [col \in AllCols |-> OutCell(col)]

---------------------------------------------------------------------------
(* History of the input series, kept for the statements below *)

TrendStep(t, prevClose, cl, at) ==
    LET clean == (at = Num(2 * Micro)) IN
    CASE t = "start" -> IF clean THEN "first" ELSE "other"
      [] t = "first" -> IF clean /\ cl = prevClose + 1 THEN "rising" ELSE "other"
      [] t = "rising" -> IF clean /\ cl = prevClose + 1 THEN "rising"
                         ELSE IF clean /\ prevClose - cl > 2 * AtrMult THEN "pulled"
                         ELSE "other"
      [] t = "pulled" -> "pulled"
      [] OTHER -> "other"

---------------------------------------------------------------------------
(* Floats of ppo_env.py and reward.py: NaN (<<>>), or the exact fraction   *)
(* <<n, d>> in lowest terms with d > 0.  Comparisons with NaN are false,   *)
(* arithmetic on NaN gives NaN.                                            *)

RECURSIVE GCD(_, _)
GCD(x, y) == IF y = 0 THEN x ELSE GCD(y, x % y)

Frac(n, d) == LET g == GCD(Abs(n), d) IN <<n \div g, d \div g>>

Zero == <<0, 1>>
One == <<1, 1>>

QNeg(x) == IF IsNaN(x) THEN NaN ELSE <<0 - x[1], x[2]>>

QAbs(x) == IF IsNaN(x) THEN NaN ELSE <<Abs(x[1]), x[2]>>

QAdd(x, y) ==
    IF IsNaN(x) \/ IsNaN(y) THEN NaN
    ELSE Frac(x[1] * y[2] + y[1] * x[2], x[2] * y[2])

QSub(x, y) == QAdd(x, QNeg(y))

QMul(x, y) ==
    IF IsNaN(x) \/ IsNaN(y) THEN NaN ELSE Frac(x[1] * y[1], x[2] * y[2])

QLt(x, y) == ~IsNaN(x) /\ ~IsNaN(y) /\ x[1] * y[2] < y[1] * x[2]

QLe(x, y) == ~IsNaN(x) /\ ~IsNaN(y) /\ x[1] * y[2] <= y[1] * x[2]

\* np.sign
NpSign(x) ==
    IF IsNaN(x) THEN NaN
    ELSE IF x[1] > 0 THEN One ELSE IF x[1] < 0 THEN QNeg(One) ELSE Zero

\* mutant: no clamp
NpClipIdentity(x, lo, hi) == x

\* np.clip(x, lo, hi) = minimum(maximum(x, lo), hi); NaN stays NaN
NpClip(x, lo, hi) ==
    IF IsNaN(x) THEN NaN
    ELSE IF QLt(x, lo) THEN lo ELSE IF QLt(hi, x) THEN hi ELSE x

\* Stand-in for the magnitude of x / 1e-9 with x # 0.  Every such quotient
\* exceeds 10^4 here and is clamped to +-3 by reward_function.
Huge == 1000

\* x / (y + 1e-9).  With y = 0 the quotient is x * 10^9: 0 for x = 0, else
\* Huge in magnitude.  With y # 0 it is x / y up to a relative error below
\* 10^-8, which changes no comparison made on it.
DivEps(x, y) ==
    IF IsNaN(x) \/ IsNaN(y) THEN NaN
    ELSE IF y[1] = 0 THEN QMul(NpSign(x), <<Huge, 1>>)
    ELSE IF y[1] > 0 THEN Frac(x[1] * y[2], x[2] * y[1])
    ELSE Frac((0 - x[1]) * y[2], x[2] * (0 - y[1]))

---------------------------------------------------------------------------
(* reward.py *)

reward_function(pnl, atr, conf, tp_dist, sl_dist, sent, news) ==
    LET pnl_r0 == DivEps(pnl, atr)
        pnl_r  == IF QLt(pnl_r0, Zero) THEN QMul(Frac(3, 2), pnl_r0) ELSE pnl_r0
        conf_r == QMul(Frac(1, 2), QMul(conf, NpSign(pnl)))
        eff    == QMul(QMul(Frac(1, 5), DivEps(tp_dist, sl_dist)),
                       IF QLt(Zero, pnl) THEN One ELSE QNeg(One))
        dd_pen == Zero
        base   == QAdd(QSub(QAdd(pnl_r, conf_r), QMul(Frac(3, 10), dd_pen)), eff)
        out    == QAdd(QMul(base, QSub(One, QMul(Frac(1, 5), news))),
                       QMul(QMul(Frac(1, 10), sent), NpSign(pnl)))
    IN NpClip(out, <<0 - 3, 1>>, <<3, 1>>)

---------------------------------------------------------------------------
(* ppo_env.py: PPOTickEnv *)

tp_bounds == <<Frac(4, 5), Frac(3, 1)>>
sl_bounds == <<Frac(1, 2), Frac(8, 5)>>
conf_threshold == Frac(3, 10)
max_policy_delta_tp == Frac(1, 2)
max_policy_delta_sl == Frac(3, 10)

(* Inputs *)
MaxRows == 5          \* rows of an arbitrary frame
TrendRows == 9        \* rows of an uptrend frame

Discrete == 0..2      \* action["discrete"]: 0 no-trade, 1 long, 2 short
Continuous == {<<Frac(0 - 1, 1), Frac(0 - 1, 1)>>, <<Zero, Zero>>,
               <<Frac(1, 2), Frac(3, 10)>>}     \* action["continuous"]
EnvAtrs == {NaN, Zero, Frac(2, 1)}              \* row["atr"]
EnvConfs == {Frac(0 - 1, 2), Frac(1, 5), Frac(3, 10)}   \* row["conf_entry_final"]
\* row["tp_mult_suggested"], row["sl_mult_suggested"]; <<1.2, 1.0>> is also
\* what a frame without these columns gives
Suggestions == {<<Frac(6, 5), One>>, <<Frac(4, 5), Frac(1, 2)>>,
                <<Frac(3, 1), Frac(8, 5)>>}
SentNews == {<<Zero, Zero>>, <<One, One>>}      \* row["sentiment"], row["news_vol"]
AnyCloses == {10}                               \* row["close"] of a decision row

Bar(h, l, cl) == [high |-> <<h, 1>>, low |-> <<l, 1>>, close |-> <<cl, 1>>]

AnyBars == {Bar(11, 10, 11), Bar(12, 12, 12), Bar(12, 8, 10), Bar(9, 9, 9)}

NoBar == [high |-> NaN, low |-> NaN, close |-> NaN]

\* the high/low/close of row idx, as the scan loop reads them
ScanBars(idx) ==
    IF frame.kind = "uptrend"
    THEN {Bar(frame.base + idx + frame.dh, frame.base + idx - frame.dl,
              frame.base + idx)}
    ELSE AnyBars

\* row idx, as a decision reads it
DecisionRows(idx) ==
    LET up == frame.kind = "uptrend" IN
    {[close |-> <<cl, 1>>, atr |-> at, conf |-> cf,
      tp_mult_suggested |-> sg[1], sl_mult_suggested |-> sg[2],
      sentiment |-> sn[1], news_vol |-> sn[2]] :
        cl \in (IF up THEN {frame.base + idx} ELSE AnyCloses),
        at \in (IF up THEN {Frac(2, 1)} ELSE EnvAtrs),
        cf \in EnvConfs, sg \in Suggestions, sn \in SentNews}

NoEntry ==
    [idx |-> 0 - 1, side |-> 0, close |-> NaN, atr |-> NaN, conf |-> NaN,
     fTP |-> NaN, fSL |-> NaN, tp_dist |-> NaN, sl_dist |-> NaN,
     tp_price |-> NaN, sl_price |-> NaN, sentiment |-> NaN, news_vol |-> NaN]

\* the fields of the returned info dict, with pnl and exit_j (locals of step())
\* and the inputs of the call: the requested discrete action and the conf read
\* at line 92
NoResult ==
    [kind |-> "none", reward |-> NaN, terminated |-> FALSE,
     hit_tp |-> FALSE, hit_sl |-> FALSE, tp_price |-> NaN, sl_price |-> NaN,
     entry_price |-> NaN, exit_price |-> NaN, fTP |-> NaN, fSL |-> NaN,
     conf |-> NaN, pnl |-> NaN, exit_j |-> 0 - 1,
     action |-> 0 - 1, row_conf |-> NaN]

\* mutant: no gate
GateOff(conf, disc) == disc

\* lines 94-96: the low-confidence gate
Gate(conf, disc) == IF QLt(QAbs(conf), conf_threshold) THEN 0 ELSE disc

\* lines 86-89 and 110-135: the locals of an entered trade at row idx
Enter(idx, rw, disc, cont) ==
    LET delta_tp == NpClip(cont[1], QNeg(max_policy_delta_tp), max_policy_delta_tp)
        delta_sl == NpClip(cont[2], QNeg(max_policy_delta_sl), max_policy_delta_sl)
        side == IF disc = 1 THEN 1 ELSE 0 - 1
        fTP == NpClip(QMul(rw.tp_mult_suggested, QAdd(One, delta_tp)),
                      tp_bounds[1], tp_bounds[2])
        fSL == NpClip(QMul(rw.sl_mult_suggested, QAdd(One, delta_sl)),
                      sl_bounds[1], sl_bounds[2])
        tp_dist == QMul(rw.atr, fTP)
        sl_dist == QMul(rw.atr, fSL)
    IN [idx |-> idx, side |-> side, close |-> rw.close, atr |-> rw.atr,
        conf |-> rw.conf, fTP |-> fTP, fSL |-> fSL,
        tp_dist |-> tp_dist, sl_dist |-> sl_dist,
        tp_price |-> IF side = 1 THEN QAdd(rw.close, tp_dist)
                     ELSE QSub(rw.close, tp_dist),
        sl_price |-> IF side = 1 THEN QSub(rw.close, sl_dist)
                     ELSE QAdd(rw.close, sl_dist),
        sentiment |-> rw.sentiment, news_vol |-> rw.news_vol]

\* mutant: the scan starts on the entry bar
ScanStartAtEntry(idx) == idx

\* line 138: the first scanned index
ScanStart(idx) == idx + 1

\* mutant: the stop is checked before the target
ExamineStopFirst(e, bar) ==
    IF e.side = 1
    THEN IF QLe(bar.low, e.sl_price)
         THEN [hit_tp |-> FALSE, hit_sl |-> TRUE, exit_price |-> e.sl_price]
         ELSE IF QLe(e.tp_price, bar.high)
         THEN [hit_tp |-> TRUE, hit_sl |-> FALSE, exit_price |-> e.tp_price]
         ELSE [hit_tp |-> FALSE, hit_sl |-> FALSE, exit_price |-> bar.close]
    ELSE IF QLe(e.sl_price, bar.high)
         THEN [hit_tp |-> FALSE, hit_sl |-> TRUE, exit_price |-> e.sl_price]
         ELSE IF QLe(bar.low, e.tp_price)
         THEN [hit_tp |-> TRUE, hit_sl |-> FALSE, exit_price |-> e.tp_price]
         ELSE [hit_tp |-> FALSE, hit_sl |-> FALSE, exit_price |-> bar.close]

\* mutant: a touch exits at the bar's close
ExamineCloseExit(e, bar) ==
    IF e.side = 1
    THEN IF QLe(e.tp_price, bar.high)
         THEN [hit_tp |-> TRUE, hit_sl |-> FALSE, exit_price |-> bar.close]
         ELSE IF QLe(bar.low, e.sl_price)
         THEN [hit_tp |-> FALSE, hit_sl |-> TRUE, exit_price |-> bar.close]
         ELSE [hit_tp |-> FALSE, hit_sl |-> FALSE, exit_price |-> bar.close]
    ELSE IF QLe(bar.low, e.tp_price)
         THEN [hit_tp |-> TRUE, hit_sl |-> FALSE, exit_price |-> bar.close]
         ELSE IF QLe(e.sl_price, bar.high)
         THEN [hit_tp |-> FALSE, hit_sl |-> TRUE, exit_price |-> bar.close]
         ELSE [hit_tp |-> FALSE, hit_sl |-> FALSE, exit_price |-> bar.close]

\* lines 142-165: one iteration of the while loop on the bar df.iloc[j]
Examine(e, bar) ==
    IF e.side = 1
    THEN IF QLe(e.tp_price, bar.high)
         THEN [hit_tp |-> TRUE, hit_sl |-> FALSE, exit_price |-> e.tp_price]
         ELSE IF QLe(bar.low, e.sl_price)
         THEN [hit_tp |-> FALSE, hit_sl |-> TRUE, exit_price |-> e.sl_price]
         ELSE [hit_tp |-> FALSE, hit_sl |-> FALSE, exit_price |-> bar.close]
    ELSE IF QLe(bar.low, e.tp_price)
         THEN [hit_tp |-> TRUE, hit_sl |-> FALSE, exit_price |-> e.tp_price]
         ELSE IF QLe(e.sl_price, bar.high)
         THEN [hit_tp |-> FALSE, hit_sl |-> TRUE, exit_price |-> e.sl_price]
         ELSE [hit_tp |-> FALSE, hit_sl |-> FALSE, exit_price |-> bar.close]

\* mutant: the side is dropped
PnlUnsigned(exit, close, side) == QSub(exit, close)

\* line 169
Pnl(exit, close, side) == QMul(QSub(exit, close), <<side, 1>>)

\* lines 168-191: what step() returns for a trade whose loop ended at jj
StepReturn(e, jj, x) ==
    LET pnl == Pnl(x.exit_price, e.close, e.side) IN
    [kind |-> "trade",
     reward |-> reward_function(pnl, e.atr, e.conf, e.tp_dist, e.sl_dist,
                                e.sentiment, e.news_vol),
     terminated |-> FALSE,
     hit_tp |-> x.hit_tp, hit_sl |-> x.hit_sl,
     tp_price |-> e.tp_price, sl_price |-> e.sl_price,
     entry_price |-> e.close, exit_price |-> x.exit_price,
     fTP |-> e.fTP, fSL |-> e.fSL, conf |-> e.conf,
     pnl |-> pnl, exit_j |-> jj,
     action |-> IF e.side = 1 THEN 1 ELSE 2, row_conf |-> e.conf]

\* mutant: no cap at the last bar
MinUncapped(x, y) == x

Min(x, y) == IF x < y THEN x ELSE y

\* mutant: a NO_TRADE step stays on its bar
NoTradeIndexStay(idx) == idx

\* line 104: the index after a NO_TRADE step
NoTradeIndex(idx) == idx + 1

---------------------------------------------------------------------------
(* tp_sl_suggest.py: build_tp_sl_suggestions, lines 166-231.  The scores   *)
(* of lines 94-164 are values in [0, 1] (every one is passed through       *)
(* _clamp01); the selection takes them as given, so they are drawn here.   *)

eps == Frac(1, 1000000)

Labels == {"F127", "F161", "F200", "R1", "R2", "S1", "S2",
           "RET236", "RET382", "RET500", "RET618", "RET786"}

tp_cands_long == <<"F127", "F161", "F200", "R1", "R2">>
sl_cands_long == <<"S1", "S2", "RET236", "RET382", "RET500", "RET618", "RET786">>
tp_cands_short == <<"F127", "F161", "F200", "S1", "S2">>
sl_cands_short == <<"R1", "R2", "RET236", "RET382", "RET500", "RET618", "RET786">>

(* Inputs *)
ConfDirs == {QNeg(One), Zero, One, NaN}        \* np.sign(conf_raw)
TpScoreValues == {Zero, Frac(1, 2), One}       \* a TP candidate's score
SlScoreValues == {Zero, One}                   \* an SL candidate's score

\* candidate distances of a row, in volatility units (0 .. 50)
Distances ==
    {[k \in Labels |-> Zero],
     [k \in Labels |-> Frac(50, 1)],
     [F127 |-> One, F161 |-> Frac(2, 1), F200 |-> Frac(4, 1),
      R1 |-> Frac(1, 2), R2 |-> Frac(3, 1), S1 |-> One, S2 |-> Frac(2, 1),
      RET236 |-> Frac(1, 4), RET382 |-> Frac(3, 5), RET500 |-> One,
      RET618 |-> Frac(3, 2), RET786 |-> Frac(2, 1)]}

\* tp_dists_* / sl_dists_*: every distance + eps
WithEps(ds) == [k \in Labels |-> QAdd(ds[k], eps)]

long_mask(cd) == QLe(Zero, cd)
short_mask(cd) == QLt(cd, Zero)

RECURSIVE ArgMaxLastFrom(_, _, _)
ArgMaxLastFrom(m, k, best) ==
    IF k > Len(m) THEN best
    ELSE ArgMaxLastFrom(m, k + 1, IF QLe(m[best], m[k]) THEN k ELSE best)

\* mutant: the last maximal entry wins
ArgMaxLast(m) == ArgMaxLastFrom(m, 2, 1)

RECURSIVE ArgMaxFrom(_, _, _)
ArgMaxFrom(m, k, best) ==
    IF k > Len(m) THEN best
    ELSE ArgMaxFrom(m, k + 1, IF QLt(m[best], m[k]) THEN k ELSE best)

\* np.argmax over one column: the first maximal entry
ArgMax(m) == ArgMaxFrom(m, 2, 1)

\* mutant: only the upper bound is applied
ClipMultUpperOnly(x, bounds) == IF QLt(bounds[2], x) THEN bounds[2] ELSE x

\* lines 223-224
ClipMult(x, bounds) == NpClip(x, bounds[1], bounds[2])

tp_mult_bounds == <<Frac(4, 5), Frac(3, 1)>>
sl_mult_bounds == <<Frac(1, 2), Frac(8, 5)>>

---------------------------------------------------------------------------
(* main.py: the training server.  A string is the sequence of its          *)
(* characters, so that the job id is built as line 209 builds it.  The     *)
(* timestamp of a job id is 14 digits; it is held as one element.          *)

MaxJobs == 3          \* jobs accepted by POST /train
MaxClock == 1         \* seconds that pass

Devices == {"cuda:0", "cuda:1"}

\* a POST /train request: whether its API key passes line 175, and the
\* fields of its body
Request(key_ok, user_id, symbol, episodes) ==
    [key_ok |-> key_ok, user_id |-> user_id, symbol |-> symbol,
     episodes |-> episodes]

\* the requests that are sent: user "u" for the symbols "A" and "B-X", user
\* "u-B" for the symbol "X", and four requests that fail a check of lines
\* 175-190
Requests ==
    {Request(TRUE, <<"u">>, <<"A">>, 2000),
     Request(TRUE, <<"u">>, <<"B", "-", "X">>, 2000),
     Request(TRUE, <<"u", "-", "B">>, <<"X">>, 2000),
     Request(FALSE, <<"u">>, <<"A">>, 2000),
     Request(TRUE, <<"u">>, <<>>, 2000),
     Request(TRUE, <<>>, <<"A">>, 2000),
     Request(TRUE, <<"u">>, <<"A">>, 0)}

\* line 91: the statuses under which a symbol counts as running
RunningStatuses == {"running", "fetching_data", "building_features", "training"}

\* strftime('%Y%m%d%H%M%S') of the second t
Stamp(t) == <<"T0", "T1", "T2", "T3">>[t + 1]

\* line 209: f"{user_id[:8]}-{symbol}-{timestamp}"
JobId(user_id, symbol, t) ==
    SubSeq(user_id, 1, IF Len(user_id) < 8 THEN Len(user_id) ELSE 8)
        \o <<"-">> \o symbol \o <<"-">> \o <<Stamp(t)>>

\* mutant: cuda:0 whenever CUDA is there
select_available_gpu_first(gj, cuda) == IF cuda THEN "cuda:0" ELSE "cpu"

\* lines 62-83; "None" is None
select_available_gpu(gj, cuda) ==
    IF ~cuda THEN "cpu"
    ELSE IF gj["cuda:0"] = 0 THEN "cuda:0"
    ELSE IF gj["cuda:1"] = 0 THEN "cuda:1"
    ELSE "None"

\* lines 86-94
symbol_currently_running(jobs, symbol) ==
    \E id \in DOMAIN jobs :
        /\ jobs[id].symbol = symbol
        /\ jobs[id].status \in RunningStatuses

\* lines 213-220: active_jobs[job_id] = {...}
Register(jobs, id, symbol, device) ==
    [k \in DOMAIN jobs \cup {id} |->
        IF k = id
        THEN [status |-> "running", symbol |-> symbol, device |-> device]
        ELSE jobs[k]]

\* active_jobs[job_id]["status"] = st
SetStatus(jobs, id, st) == [jobs EXCEPT ![id].status = st]

NoRun == [k |-> 0, pc |-> "idle"]

\* the status code of the answer, with the device of the answer's body; for
\* a request that passed the checks of lines 175-190, the symbol it named
NoResponse == [code |-> 0, symbol |-> <<>>, device |-> "None"]

\* no server is under study
SrvIdle ==
    /\ active_jobs = <<>>
    /\ gpu_jobs = [d \in Devices |-> 0]
    /\ cuda_available = FALSE
    /\ tasks = <<>>
    /\ run = NoRun
    /\ response = NoResponse
    /\ now = 0
    /\ accepted = 0

---------------------------------------------------------------------------
(* compute_fib_features *)

\* no env is under study
\* no scorer is under study
SugIdle ==
    /\ spc = "idle"
    /\ conf_dir = NaN
    /\ dists = [k \in Labels |-> NaN]
    /\ mat = <<>>
    /\ tp_source = "NA"
    /\ sl_source = "NA"
    /\ tp_best = Zero
    /\ sl_best = Zero
    /\ tp_mult_suggested = NaN
    /\ sl_mult_suggested = NaN

EnvIdle ==
    /\ frame = [kind |-> "none", base |-> 0, dh |-> 0, dl |-> 0]
    /\ env_n = 0
    /\ env_i = 0
    /\ epc = "idle"
    /\ entry = NoEntry
    /\ j = 0
    /\ nxt = NoBar
    /\ scan = <<>>
    /\ exit_price = NaN
    /\ result = NoResult
    /\ steps = 0
    /\ last_exit = 0 - 1

InitCommon ==
    /\ EnvIdle
    /\ SugIdle
    /\ SrvIdle
    /\ fpc = "loop"
    /\ i = 0
    /\ last_pivot_price \in Closes      \* df["close"].iloc[0]
    /\ piv_types = <<>>
    /\ piv_prices = <<>>
    /\ c = last_pivot_price
    /\ a = NaN
    /\ atr_cur = NaN
    /\ row = [col \in AllCols |-> NaN]
    /\ ffilled = [col \in AllCols |-> NaN]
    /\ emitted = "None"
    /\ last_pos_atr = NaN
    /\ trend = "start"

Init ==
    /\ direction = UNSET
    /\ InitCommon

(* One iteration of the loop, lines 66-118, on the bar (cl, at). *)
ProcessBar ==
    /\ fpc = "loop"
    /\ i < MaxBars
    /\ \E cl \in Closes, at \in AtrValues :
         /\ i = 0 => cl = last_pivot_price
         /\ LET vol == BarVol(i, at, atr_cur)
                u   == UpdatePivot(direction, last_pivot_price, cl, Rev(vol))
                pv  == RecordPivot(piv_types, piv_prices, u)
                cells == [col \in AllCols |->
                            IF col \in SR_FEATURE_COLS
                            THEN SRCell(col, pv.prices, cl, vol)
                            ELSE FibCell(col, pv.types, pv.prices, cl, vol)]
            IN /\ c' = cl
               /\ a' = vol
               /\ atr_cur' = at
               /\ direction' = u.direction
               /\ last_pivot_price' = u.last_pivot_price
               /\ emitted' = u.new_type
               /\ piv_types' = pv.types
               /\ piv_prices' = pv.prices
               /\ row' = cells
               /\ ffilled' = FFill(ffilled, cells)
               /\ last_pos_atr' = IF IsPos(at) THEN at ELSE last_pos_atr
               /\ trend' = TrendStep(trend, c, cl, at)
    /\ i' = i + 1
    /\ UNCHANGED <<fpc, envVars, sugVars, srvVars>>

(* The loop is over (n = i bars): fill & clip, return. *)
Finish ==
    /\ fpc = "loop"
    /\ i >= 1
    /\ fpc' = "done"
    /\ UNCHANGED <<i, direction, last_pivot_price, piv_types, piv_prices, c, a,
                   atr_cur, row, ffilled, emitted, last_pos_atr, trend, envVars,
                   sugVars, srvVars>>

Next == ProcessBar \/ Finish

Spec == Init /\ [][Next]_vars

(* The loop body from every swing state _update_pivot accepts: direction  *)
(* is drawn from {-1, 0, +1} instead of the 0 of line 63.                  *)
InitSwing ==
    /\ direction \in {DOWN, UNSET, UP}
    /\ InitCommon

SpecSwing == InitSwing /\ [][Next]_vars

---------------------------------------------------------------------------
(* PPOTickEnv: reset() and step().  step() is one action when it returns   *)
(* before the simulation (StepTerminal, StepNoTrade); an entered trade is  *)
(* StepEnter followed by one action per iteration of the while loop, the   *)
(* last of which (ScanHit or ScanTimeout) includes lines 168-191.          *)

\* no feature pass is under study
FibIdle ==
    /\ fpc = "idle"
    /\ i = 0
    /\ direction = UNSET
    /\ last_pivot_price = 0
    /\ piv_types = <<>>
    /\ piv_prices = <<>>
    /\ c = 0
    /\ a = NaN
    /\ atr_cur = NaN
    /\ row = [col \in AllCols |-> NaN]
    /\ ffilled = [col \in AllCols |-> NaN]
    /\ emitted = "None"
    /\ last_pos_atr = NaN
    /\ trend = "start"

\* __init__ on a frame of env_n rows
EnvInitCommon ==
    /\ FibIdle
    /\ SugIdle
    /\ SrvIdle
    /\ env_i = 0
    /\ epc = "ready"
    /\ entry = NoEntry
    /\ j = 0
    /\ nxt = NoBar
    /\ scan = <<>>
    /\ exit_price = NaN
    /\ result = NoResult
    /\ steps = 0
    /\ last_exit = 0 - 1

InitEnv ==
    /\ frame = [kind |-> "any", base |-> 0, dh |-> 0, dl |-> 0]
    /\ env_n \in 1..MaxRows
    /\ EnvInitCommon

reset ==
    /\ epc = "ready"
    /\ env_i' = 0
    /\ entry' = NoEntry
    /\ j' = 0
    /\ nxt' = NoBar
    /\ scan' = <<>>
    /\ exit_price' = NaN
    /\ result' = NoResult
    /\ steps' = 0
    /\ last_exit' = 0 - 1
    /\ UNCHANGED <<frame, env_n, epc, fibVars, sugVars, srvVars>>

\* lines 81-83
StepTerminal ==
    /\ epc = "ready"
    /\ env_i >= env_n - 2
    /\ result' = [NoResult EXCEPT !.kind = "terminal", !.reward = Zero,
                                  !.terminated = TRUE]
    /\ entry' = NoEntry
    /\ j' = 0
    /\ nxt' = NoBar
    /\ scan' = <<>>
    /\ exit_price' = NaN
    /\ UNCHANGED <<frame, env_n, env_i, epc, steps, last_exit, fibVars,
                   sugVars, srvVars>>

\* lines 85-107
StepNoTrade ==
    /\ epc = "ready"
    /\ env_i < env_n - 2
    /\ \E disc \in Discrete, rw \in DecisionRows(env_i) :
         /\ Gate(rw.conf, disc) = 0
         /\ result' = [NoResult EXCEPT !.kind = "no_trade", !.reward = Zero,
                                       !.action = disc,
                                       !.row_conf = rw.conf]
    /\ env_i' = NoTradeIndex(env_i)
    /\ steps' = steps + 1
    /\ entry' = NoEntry
    /\ j' = 0
    /\ nxt' = NoBar
    /\ scan' = <<>>
    /\ exit_price' = NaN
    /\ UNCHANGED <<frame, env_n, epc, last_exit, fibVars, sugVars, srvVars>>

\* lines 85-140
StepEnter ==
    /\ epc = "ready"
    /\ env_i < env_n - 2
    /\ \E disc \in Discrete, cont \in Continuous, rw \in DecisionRows(env_i) :
         /\ Gate(rw.conf, disc) # 0
         /\ entry' = Enter(env_i, rw, Gate(rw.conf, disc), cont)
    /\ j' = ScanStart(env_i)
    /\ nxt' \in ScanBars(j')
    /\ exit_price' = nxt'.close
    /\ scan' = <<>>
    /\ result' = NoResult
    /\ epc' = "scan"
    /\ UNCHANGED <<frame, env_n, env_i, steps, last_exit, fibVars,
                   sugVars, srvVars>>

\* lines 142-164, an iteration without a touch that is not the last
ScanContinue ==
    /\ epc = "scan"
    /\ j < env_n
    /\ LET x == Examine(entry, nxt) IN
         /\ ~x.hit_tp /\ ~x.hit_sl
         /\ j + 1 < env_n
         /\ exit_price' = x.exit_price
    /\ j' = j + 1
    /\ nxt' \in ScanBars(j')
    /\ scan' = Append(scan, nxt)
    /\ UNCHANGED <<frame, env_n, env_i, epc, entry, result, steps, last_exit,
                   fibVars, sugVars, srvVars>>

\* lines 142-191, the iteration that touches a level
ScanHit ==
    /\ epc = "scan"
    /\ j < env_n
    /\ LET x == Examine(entry, nxt) IN
         /\ x.hit_tp \/ x.hit_sl
         /\ exit_price' = x.exit_price
         /\ result' = StepReturn(entry, j, x)
    /\ env_i' = Min(j + 1, env_n - 1)
    /\ scan' = Append(scan, nxt)
    /\ nxt' = NoBar
    /\ epc' = "ready"
    /\ steps' = steps + 1
    /\ last_exit' = j
    /\ UNCHANGED <<frame, env_n, entry, j, fibVars, sugVars, srvVars>>

\* lines 142-191, the last iteration when it touches no level
ScanTimeout ==
    /\ epc = "scan"
    /\ j < env_n
    /\ LET x == Examine(entry, nxt) IN
         /\ ~x.hit_tp /\ ~x.hit_sl
         /\ ~(j + 1 < env_n)
         /\ exit_price' = x.exit_price
         /\ result' = StepReturn(entry, j + 1, x)
    /\ j' = j + 1
    /\ env_i' = Min(j' + 1, env_n - 1)
    /\ scan' = Append(scan, nxt)
    /\ nxt' = NoBar
    /\ epc' = "ready"
    /\ steps' = steps + 1
    /\ last_exit' = j
    /\ UNCHANGED <<frame, env_n, entry, fibVars, sugVars, srvVars>>

NextEnv ==
    \/ reset
    \/ StepTerminal
    \/ StepNoTrade
    \/ StepEnter
    \/ ScanContinue
    \/ ScanHit
    \/ ScanTimeout

SpecEnv == InitEnv /\ [][NextEnv]_vars

(* The env on an uptrend frame: close rises by 1 per bar from 10, high is  *)
(* dh above and low dl below the close on every bar, atr is 2.             *)
Offsets == 0..2

InitTrend ==
    /\ frame \in {[kind |-> "uptrend", base |-> 10, dh |-> h, dl |-> l] :
                    h \in Offsets, l \in Offsets}
    /\ env_n = TrendRows
    /\ EnvInitCommon

SpecTrend == InitTrend /\ [][NextEnv]_vars

---------------------------------------------------------------------------
(* build_tp_sl_suggestions, lines 166-231, followed for one row at a time: *)
(* the row's initial values, its TP pick, its SL pick, the guard rails.    *)

InitSuggest ==
    /\ FibIdle
    /\ EnvIdle
    /\ SrvIdle
    /\ spc = "row"
    /\ conf_dir = NaN
    /\ dists = [k \in Labels |-> NaN]
    /\ mat = <<>>
    /\ tp_source = "NA"
    /\ sl_source = "NA"
    /\ tp_best = Zero
    /\ sl_best = Zero
    /\ tp_mult_suggested = NaN
    /\ sl_mult_suggested = NaN

\* lines 49-55, 77-87, 167-175 for the next row
NewRow ==
    /\ spc = "row"
    /\ conf_dir' \in ConfDirs
    /\ \E ds \in Distances : dists' = WithEps(ds)
    /\ mat' = <<>>
    /\ tp_source' = "NA"
    /\ sl_source' = "NA"
    /\ tp_best' = Zero
    /\ sl_best' = Zero
    /\ tp_mult_suggested' = NaN
    /\ sl_mult_suggested' = NaN
    /\ spc' = "tp"
    /\ UNCHANGED <<fibVars, envVars, srvVars>>

\* lines 184-190 (long rows) and 206-212 (short rows)
PickTP ==
    /\ spc = "tp"
    /\ LET cands == IF long_mask(conf_dir) THEN tp_cands_long ELSE tp_cands_short IN
       IF long_mask(conf_dir) \/ short_mask(conf_dir)
       THEN \E m \in [1..Len(cands) -> TpScoreValues] :
               /\ mat' = m
               /\ tp_source' = cands[ArgMax(m)]
               /\ tp_best' = dists[cands[ArgMax(m)]]
       ELSE /\ mat' = <<>>
            /\ UNCHANGED <<tp_source, tp_best>>
    /\ spc' = "sl"
    /\ UNCHANGED <<conf_dir, dists, sl_source, sl_best, tp_mult_suggested,
                   sl_mult_suggested, fibVars, envVars, srvVars>>

\* lines 192-198 (long rows) and 214-220 (short rows)
PickSL ==
    /\ spc = "sl"
    /\ LET cands == IF long_mask(conf_dir) THEN sl_cands_long ELSE sl_cands_short IN
       IF long_mask(conf_dir) \/ short_mask(conf_dir)
       THEN \E m \in [1..Len(cands) -> SlScoreValues] :
               /\ mat' = m
               /\ sl_source' = cands[ArgMax(m)]
               /\ sl_best' = dists[cands[ArgMax(m)]]
       ELSE /\ mat' = <<>>
            /\ UNCHANGED <<sl_source, sl_best>>
    /\ spc' = "clip"
    /\ UNCHANGED <<conf_dir, dists, tp_source, tp_best, tp_mult_suggested,
                   sl_mult_suggested, fibVars, envVars, srvVars>>

\* lines 223-229
ClipRow ==
    /\ spc = "clip"
    /\ tp_mult_suggested' = ClipMult(tp_best, tp_mult_bounds)
    /\ sl_mult_suggested' = ClipMult(sl_best, sl_mult_bounds)
    /\ mat' = <<>>
    /\ spc' = "row"
    /\ UNCHANGED <<conf_dir, dists, tp_source, sl_source, tp_best, sl_best,
                   fibVars, envVars, srvVars>>

NextSuggest == NewRow \/ PickTP \/ PickSL \/ ClipRow

SpecSuggest == InitSuggest /\ [][NextSuggest]_vars

---------------------------------------------------------------------------
(* The training server.  train_model and run_training are coroutines with  *)
(* no await in them: each runs on the event loop without another handler   *)
(* in between.  train_model is one step.  run_training is shown stage by   *)
(* stage, and while it runs (run.pc # "idle") no request is served, as its *)
(* subprocess calls block the loop.  The response of train_model is sent   *)
(* before its background task starts, so other requests can be served      *)
(* between the two, and accepted tasks can start in any order.             *)
(* GET /status, GET /jobs and GET /health change nothing.                  *)

InitServer ==
    /\ FibIdle
    /\ EnvIdle
    /\ SugIdle
    /\ active_jobs = <<>>
    /\ gpu_jobs = [d \in Devices |-> 0]
    /\ cuda_available \in BOOLEAN
    /\ tasks = <<>>
    /\ run = NoRun
    /\ response = NoResponse
    /\ now = 0
    /\ accepted = 0

\* the clock passes a second (run_training does not read the clock for a
\* job id, so a second that passes during a run is shown after it)
Tick ==
    /\ run = NoRun
    /\ now < MaxClock
    /\ now' = now + 1
    /\ response' = NoResponse
    /\ UNCHANGED <<active_jobs, gpu_jobs, cuda_available, tasks, run, accepted,
                   fibVars, envVars, sugVars>>

\* raise HTTPException(status_code = code)
Reject(code, symbol) ==
    /\ response' = [NoResponse EXCEPT !.code = code, !.symbol = symbol]
    /\ UNCHANGED <<active_jobs, gpu_jobs, tasks, accepted>>

\* lines 163-248: POST /train
train_model ==
    /\ run = NoRun
    /\ accepted < MaxJobs
    /\ \E request \in Requests :
         LET symbol == request.symbol
             device == select_available_gpu(gpu_jobs, cuda_available)
             job_id == JobId(request.user_id, symbol, now)
         IN IF ~request.key_ok THEN Reject(401, <<>>)
            ELSE IF symbol = <<>> \/ request.user_id = <<>>
            THEN Reject(400, <<>>)
            ELSE IF request.episodes <= 0 THEN Reject(400, <<>>)
            ELSE IF symbol_currently_running(active_jobs, symbol)
            THEN Reject(409, symbol)
            ELSE IF device = "None" THEN Reject(429, symbol)
            ELSE /\ active_jobs' = Register(active_jobs, job_id, symbol, device)
                 /\ gpu_jobs' = IF device \in Devices
                                THEN [gpu_jobs EXCEPT ![device] = @ + 1]
                                ELSE gpu_jobs
                 /\ tasks' = Append(tasks,
                        [job_id |-> job_id, symbol |-> symbol,
                         device |-> device, phase |-> "pending",
                         final |-> FALSE])
                 /\ accepted' = accepted + 1
                 /\ response' = [code |-> 200, symbol |-> symbol,
                                 device |-> device]
    /\ UNCHANGED <<cuda_available, run, now, fibVars, envVars, sugVars>>

\* lines 283-285: a background task starts
RunStart ==
    /\ run = NoRun
    /\ \E k \in DOMAIN tasks :
         /\ tasks[k].phase = "pending"
         /\ run' = [k |-> k, pc |-> "detect"]
         /\ tasks' = [tasks EXCEPT ![k].phase = "running"]
         /\ active_jobs' = SetStatus(active_jobs, tasks[k].job_id,
                                     "detecting_asset_type")
    /\ response' = NoResponse
    /\ UNCHANGED <<gpu_jobs, cuda_available, now, accepted, fibVars, envVars,
                   sugVars>>

\* lines 286-290
RunDetect ==
    /\ run.pc = "detect"
    /\ run' = [run EXCEPT !.pc = "fetch"]
    /\ active_jobs' = SetStatus(active_jobs, tasks[run.k].job_id,
                                "fetching_data")
    /\ response' = NoResponse
    /\ UNCHANGED <<gpu_jobs, cuda_available, tasks, now, accepted, fibVars,
                   envVars, sugVars>>

\* the stage after a stage that returned 0, and its status
NextStage(pc) ==
    IF pc = "fetch" THEN <<"features", "building_features">>
    ELSE IF pc = "features" THEN <<"train", "training">>
    ELSE <<"finally", "completed">>

\* lines 292-378: the subprocess of a stage returns 0
StageOk ==
    /\ run.pc \in {"fetch", "features", "train"}
    /\ run' = [run EXCEPT !.pc = NextStage(run.pc)[1]]
    /\ active_jobs' = SetStatus(active_jobs, tasks[run.k].job_id,
                                NextStage(run.pc)[2])
    /\ tasks' = [tasks EXCEPT ![run.k].final = (run.pc = "train")]
    /\ response' = NoResponse
    /\ UNCHANGED <<gpu_jobs, cuda_available, now, accepted, fibVars, envVars,
                   sugVars>>

\* lines 307-308, 331-332, 363-364, 386-390: the subprocess of a stage
\* fails and the RuntimeError is caught
StageFail ==
    /\ run.pc \in {"fetch", "features", "train"}
    /\ run' = [run EXCEPT !.pc = "finally"]
    /\ active_jobs' = SetStatus(active_jobs, tasks[run.k].job_id, "error")
    /\ tasks' = [tasks EXCEPT ![run.k].final = TRUE]
    /\ response' = NoResponse
    /\ UNCHANGED <<gpu_jobs, cuda_available, now, accepted, fibVars, envVars,
                   sugVars>>

\* lines 380-384: the subprocess of a stage exceeds its time limit
StageTimeout ==
    /\ run.pc \in {"fetch", "features", "train"}
    /\ run' = [run EXCEPT !.pc = "finally"]
    /\ active_jobs' = SetStatus(active_jobs, tasks[run.k].job_id, "timeout")
    /\ tasks' = [tasks EXCEPT ![run.k].final = TRUE]
    /\ response' = NoResponse
    /\ UNCHANGED <<gpu_jobs, cuda_available, now, accepted, fibVars, envVars,
                   sugVars>>

\* the sequence q without its element k
Remove(q, k) == SubSeq(q, 1, k - 1) \o SubSeq(q, k + 1, Len(q))

\* line 397
Decrement(n) == IF n - 1 > 0 THEN n - 1 ELSE 0

\* lines 392-409: the finally block; the task ends
RunFinally ==
    /\ run.pc = "finally"
    /\ LET dev == active_jobs[tasks[run.k].job_id].device IN
         gpu_jobs' = IF dev \in Devices
                     THEN [gpu_jobs EXCEPT ![dev] = Decrement(@)]
                     ELSE gpu_jobs
    /\ tasks' = Remove(tasks, run.k)
    /\ run' = NoRun
    /\ response' = NoResponse
    /\ UNCHANGED <<active_jobs, cuda_available, now, accepted, fibVars, envVars,
                   sugVars>>

RunStep == RunStart \/ RunDetect \/ StageOk \/ StageFail \/ StageTimeout
               \/ RunFinally

NextServer == Tick \/ train_model \/ RunStep

SpecServer == InitServer /\ [][NextServer]_vars

(* A background task that was added is run, and every subprocess has a     *)
(* time limit (lines 303, 327, 358), so run_training goes on to its end.   *)
SpecServerFair == SpecServer /\ WF_vars(RunStep)

---------------------------------------------------------------------------
(* Statements about the pivot detector and the structural features *)

Alternates(types) == \A k \in 1..(Len(types) - 1) : types[k] # types[k + 1]

UsableVol == ~IsNaN(a) /\ a[1] # 0

\* C1: after bar 0 has been processed the direction is UP, the anchor is
\* that bar's close and no pivot was emitted; the direction is never UNSET
\* at any later bar.
C1_UnsetLeftOnFirstBar ==
    /\ i = 1 => direction = UP /\ last_pivot_price = c /\ piv_types = <<>>
    /\ i >= 1 => direction # UNSET

\* C2: after every bar the pivot list has no two adjacent entries of the
\* same type.
C2_PivotsAlternate == Alternates(piv_types)

C2_Witness == Len(piv_types) >= 3 /\ Alternates(piv_types)

\* C3: the per-bar swing transition with rev = atr_mult * volatility.  In
\* direction UP a close above the anchor moves the anchor and emits nothing;
\* otherwise a close more than rev below the anchor emits a HIGH pivot, flips
\* to DOWN and resets the anchor to the close; otherwise direction, anchor
\* and pivot list are unchanged.  Direction DOWN is symmetric (LOW pivot,
\* flip to UP).
C3_SwingTransition ==
    [][i' = i + 1 =>
         /\ direction = UP =>
              IF c' > last_pivot_price
              THEN /\ last_pivot_price' = c'
                   /\ direction' = UP
                   /\ emitted' = "None"
                   /\ piv_types' = piv_types /\ piv_prices' = piv_prices
              ELSE IF GtRev(last_pivot_price - c', Rev(a'))
              THEN /\ emitted' = "H"
                   /\ Len(piv_types') >= 1
                   /\ piv_types'[Len(piv_types')] = "H"
                   /\ direction' = DOWN
                   /\ last_pivot_price' = c'
              ELSE /\ direction' = direction
                   /\ last_pivot_price' = last_pivot_price
                   /\ emitted' = "None"
                   /\ piv_types' = piv_types /\ piv_prices' = piv_prices
         /\ direction = DOWN =>
              IF c' < last_pivot_price
              THEN /\ last_pivot_price' = c'
                   /\ direction' = DOWN
                   /\ emitted' = "None"
                   /\ piv_types' = piv_types /\ piv_prices' = piv_prices
              ELSE IF GtRev(c' - last_pivot_price, Rev(a'))
              THEN /\ emitted' = "L"
                   /\ Len(piv_types') >= 1
                   /\ piv_types'[Len(piv_types')] = "L"
                   /\ direction' = UP
                   /\ last_pivot_price' = c'
              ELSE /\ direction' = direction
                   /\ last_pivot_price' = last_pivot_price
                   /\ emitted' = "None"
                   /\ piv_types' = piv_types /\ piv_prices' = piv_prices
    ]_vars

\* a bar at which the close sat exactly rev away from the anchor, after a reversal
C3_Witness ==
    /\ Len(piv_types) >= 1
    /\ emitted = "None"
    /\ direction = DOWN
    /\ UsableVol
    /\ (c - last_pivot_price) * Micro = AtrMult * a[1]

C5_PullbackRegistersPivot ==
    trend = "pulled" =>
        /\ Len(piv_types) >= 1
        /\ \E k \in 1..(Len(piv_types) - 1) :
               piv_types[k] = "L" /\ piv_types[k + 1] = "H"

\* C6: at every bar the volatility used is strictly positive: the bar's own
\* atr when positive, else the most recent positive atr of an earlier bar,
\* else (none seen yet) the epsilon.
C6_VolatilityPositive ==
    i >= 1 =>
        /\ IsPos(a)
        /\ a = (IF IsNaN(last_pos_atr) THEN Epsilon ELSE last_pos_atr)

\* C7: a bar gets fresh Fibonacci values only if the pivot list has at least
\* 3 entries, the last three are L-H-L or H-L-H, and R = |B - A| > 0.
C7_FibOnlyOnValidABC ==
    (\E col \in FIB_FEATURE_COLS : ~IsNaN(row[col])) =>
        /\ Len(piv_types) >= 3
        /\ LET n == Len(piv_types)
               t == <<piv_types[n - 2], piv_types[n - 1], piv_types[n]>>
           IN /\ t \in {<<"L", "H", "L">>, <<"H", "L", "H">>}
              /\ piv_prices[n - 1] # piv_prices[n - 2]

C7_Witness ==
    /\ \A col \in FIB_FEATURE_COLS : ~IsNaN(row[col])
    /\ Len(piv_types) >= 3

\* C8: for last pivots A,B,C of types L-H-L and R = |B - A| the extensions
\* are C + R*{1.272, 1.618, 2.0} and the retracements B - R*{0.236, 0.382,
\* 0.5, 0.618, 0.786}; for H-L-H every sign is inverted.  An extension is
\* reported as (level - close)/volatility, a retracement as
\* (close - level)/volatility.  A=100, B=120, C=110 gives the 1.272
\* extension 135.44.
C8_FibLevelValues ==
    /\ (\E col \in FIB_FEATURE_COLS : ~IsNaN(row[col])) =>
         LET n == Len(piv_types)
             A == piv_prices[n - 2]
             B == piv_prices[n - 1]
             C == piv_prices[n]
             R == Abs(B - A)
             sg == IF piv_types[n] = "L" THEN 1 ELSE 0 - 1
             ext(r) == <<((C * 1000 + sg * R * r) - c * 1000) * 1000, a[1]>>
             ret(r) == <<(c * 1000 - (B * 1000 - sg * R * r)) * 1000, a[1]>>
         IN /\ row["fib_ext_127"] = ext(1272)
            /\ row["fib_ext_161"] = ext(1618)
            /\ row["fib_ext_200"] = ext(2000)
            /\ row["fib_ret_236"] = ret(236)
            /\ row["fib_ret_382"] = ret(382)
            /\ row["fib_ret_500"] = ret(500)
            /\ row["fib_ret_618"] = ret(618)
            /\ row["fib_ret_786"] = ret(786)
    /\ FibLevels([some |-> TRUE, A_type |-> "L", A |-> 100, B_type |-> "H",
                  B |-> 120, C_type |-> "L", C |-> 110]).ext127 = 135440

C8_Witness ==
    /\ \A col \in FIB_FEATURE_COLS : ~IsNaN(row[col])
    /\ Len(piv_types) >= 3
    /\ piv_types[Len(piv_types)] = "L"
    /\ c # piv_prices[Len(piv_prices)]

\* C9: among the distinct pivot prices held, sr_support_1/2 are the nearest
\* and second-nearest prices strictly below the close and sr_resistance_1/2
\* the nearest and second-nearest strictly above it, each reported as
\* |price - close|/volatility; a level is unavailable when too few prices
\* exist on its side, and a pivot price equal to the close counts on
\* neither side.  (At a zero or missing volatility the quotient is NaN:
\* every level is unavailable.)
C9_SupportResistance ==
    /\ (i >= 1 /\ ~UsableVol) => \A col \in SR_FEATURE_COLS : IsNaN(row[col])
    /\ (i >= 1 /\ UsableVol) =>
        LET P == {piv_prices[k] : k \in 1..Len(piv_prices)}
            below == {p \in P : p < c}
            above == {p \in P : p > c}
            dist(p) == <<Abs(p - c) * 1000 * 1000, a[1]>>
            \* the price of side S with exactly k prices of S strictly nearer the close
            pick(S, k, cell) ==
                IF Cardinality(S) <= k THEN IsNaN(cell)
                ELSE \E p \in S :
                        /\ Cardinality({q \in S : Abs(q - c) < Abs(p - c)}) = k
                        /\ cell = dist(p)
        IN /\ pick(below, 0, row["sr_support_1_dist"])
           /\ pick(below, 1, row["sr_support_2_dist"])
           /\ pick(above, 0, row["sr_resistance_1_dist"])
           /\ pick(above, 1, row["sr_resistance_2_dist"])

\* two supports below the close and a pivot price sitting on the close
C9_Witness ==
    /\ UsableVol
    /\ ~IsNaN(row["sr_support_2_dist"])
    /\ IsNaN(row["sr_resistance_1_dist"])
    /\ \E k \in 1..Len(piv_prices) : piv_prices[k] = c

InClipRange(x) == (0 - ClipBound) * x[2] <= x[1] /\ x[1] <= ClipBound * x[2]

\* C11: every value of the 12 columns of the returned frame is present and
\* lies in [-50, +50]: a bar with no fresh value carries the last earlier
\* value forward, bars before any value get 0, and a value outside the range
\* is reported as exactly the bound -50 or +50.
C11_FilledAndClipped ==
    [][i' = i + 1 =>
         \A col \in AllCols :
            LET v == OutCell(col)'
                f == row'[col]
            IN /\ ~IsNaN(v)
               /\ InClipRange(v)
               /\ IF IsNaN(f)
                  THEN v = (IF i = 0 THEN <<0, 1>> ELSE OutCell(col))
                  ELSE IF f[1] > 50 * f[2] THEN v = <<50, 1>>
                  ELSE IF f[1] < (0 - 50) * f[2] THEN v = <<0 - 50, 1>>
                  ELSE v = f
    ]_vars

\* one column clipped to +50, one to -50 and one carried forward, in one row
C11_Witness ==
    /\ \E col \in AllCols : ~IsNaN(row[col]) /\ ~InClipRange(row[col])
                            /\ OutRow[col] = <<50, 1>>
    /\ \E col \in AllCols : ~IsNaN(row[col]) /\ ~InClipRange(row[col])
                            /\ OutRow[col] = <<0 - 50, 1>>
    /\ \E col \in AllCols : IsNaN(row[col]) /\ OutRow[col][1] # 0

---------------------------------------------------------------------------
(* Statements about the trade simulation of PPOTickEnv.step *)

TouchesTarget(e, bar) ==
    IF e.side = 1 THEN QLe(e.tp_price, bar.high) ELSE QLe(bar.low, e.tp_price)

TouchesStop(e, bar) ==
    IF e.side = 1 THEN QLe(bar.low, e.sl_price) ELSE QLe(e.sl_price, bar.high)

Touches(e, bar) == TouchesTarget(e, bar) \/ TouchesStop(e, bar)

\* step() has returned from a simulated trade
Traded == epc = "ready" /\ result.kind = "trade"

LastScanned == scan[Len(scan)]

\* C12: when a scanned bar touches both the target and the stop, the
\* outcome is TARGET (hit_tp true, hit_sl false), for longs and shorts.
C12_TargetWinsTie ==
    Traded =>
        \A k \in 1..Len(scan) :
            TouchesTarget(entry, scan[k]) /\ TouchesStop(entry, scan[k])
                => result.hit_tp /\ ~result.hit_sl

\* a short whose exit bar touches two distinct levels
C12_Witness ==
    /\ Traded
    /\ entry.side = 0 - 1
    /\ entry.tp_price # entry.sl_price
    /\ TouchesTarget(entry, LastScanned)
    /\ TouchesStop(entry, LastScanned)
    /\ result.hit_tp

\* C13: the scan goes strictly forward from the bar after the entry and
\* stops at the first touching bar: the exit index is the smallest j above
\* the entry index whose bar touches a level, no scanned bar before it
\* touches, and the entry bar itself is never examined.
C13_FirstTouchExits ==
    Traded /\ (result.hit_tp \/ result.hit_sl) =>
        /\ Len(scan) >= 1
        /\ result.exit_j = entry.idx + Len(scan)
        /\ result.exit_j > entry.idx
        /\ Touches(entry, LastScanned)
        /\ \A k \in 1..(Len(scan) - 1) : ~Touches(entry, scan[k])

\* an exit on the third bar after the entry
C13_Witness ==
    /\ Traded
    /\ result.hit_tp \/ result.hit_sl
    /\ Len(scan) >= 3
    /\ result.exit_j = entry.idx + 3

\* C14: on a touch the exit price is exactly the touched level, tp_price on
\* a target hit and sl_price on a stop hit.
C14_ExitAtLevel ==
    Traded =>
        /\ result.hit_tp => result.exit_price = result.tp_price
                            /\ result.exit_price = entry.tp_price
        /\ result.hit_sl => result.exit_price = result.sl_price
                            /\ result.exit_price = entry.sl_price

\* a target hit at a level that is none of the exit bar's high, low, close
C14_Witness ==
    /\ Traded
    /\ result.hit_tp
    /\ result.exit_price \notin {LastScanned.high, LastScanned.low,
                                 LastScanned.close}

\* C15: when no bar after the entry touches a level before the series ends,
\* step() returns a TIMEOUT: hit_tp and hit_sl are both false, the exit
\* price is the close of the last bar of the series, the PnL is taken
\* against that close, and the scan never reads past the last row.
C15_TimeoutAtLastClose ==
    /\ epc = "scan" => j < env_n /\ j > entry.idx
    /\ Traded /\ (\A k \in 1..Len(scan) : ~Touches(entry, scan[k])) =>
          /\ ~result.hit_tp /\ ~result.hit_sl
          /\ entry.idx + Len(scan) = env_n - 1
          /\ result.exit_price = LastScanned.close
          /\ result.pnl = (IF entry.side = 1
                           THEN QSub(LastScanned.close, entry.close)
                           ELSE QSub(entry.close, LastScanned.close))
          /\ env_i = env_n - 1

\* a short that times out with a non-zero PnL after two bars
C15_Witness ==
    /\ Traded
    /\ ~result.hit_tp /\ ~result.hit_sl
    /\ entry.side = 0 - 1
    /\ ~IsNaN(entry.atr)
    /\ Len(scan) >= 2
    /\ result.pnl # Zero

LongWithRunway ==
    /\ Traded
    /\ frame.kind = "uptrend"
    /\ entry.side = 1
    /\ entry.atr = Frac(2, 1)
    /\ (env_n - 1) - entry.idx >= 6

\* C16 as stated: on a series whose close, high and low rise by 1 per bar
\* with volatility 2, a long entered with at least 6 bars remaining ends in
\* a TARGET hit for every multiplier pair within the bounds.
C16_UptrendHitsTarget == LongWithRunway => result.hit_tp

\* C16 amended: the same, on series whose low is less than 2 below the
\* close on every bar.
C16_UptrendHitsTargetNarrowLow ==
    LongWithRunway /\ frame.dl < 2 => result.hit_tp

\* the widest target, 3.0 * 2, reached on the sixth bar after the entry
C16_Witness ==
    /\ LongWithRunway
    /\ frame.dl < 2
    /\ entry.fTP = Frac(3, 1)
    /\ result.hit_tp
    /\ result.exit_j = entry.idx + 6

\* C17: every reward returned by step() lies in [-3, 3].
C17_RewardInRange ==
    epc = "ready" /\ result.kind # "none" =>
        QLe(<<0 - 3, 1>>, result.reward) /\ QLe(result.reward, <<3, 1>>)

---------------------------------------------------------------------------
(* Statements about the TP/SL suggestion of build_tp_sl_suggestions *)

\* entry k of m is maximal and no earlier entry equals it
FirstMax(m, k) ==
    \A n \in 1..Len(m) : QLe(m[n], m[k]) /\ (n < k => QLt(m[n], m[k]))

Picked(order, m, label) ==
    /\ Len(m) = Len(order)
    /\ \E k \in 1..Len(order) : order[k] = label /\ FirstMax(m, k)

\* C18: per row and leg the selection picks a candidate of maximal score;
\* on exact ties the earliest in the canonical order wins (long TP: F127,
\* F161, F200, R1, R2; long SL: S1, S2, RET236 .. RET786; short TP: F127,
\* F161, F200, S1, S2; short SL: R1, R2, RET236 .. RET786).
C18_MaxScoreEarliestWins ==
    /\ spc = "sl" /\ QLe(Zero, conf_dir) =>
          Picked(<<"F127", "F161", "F200", "R1", "R2">>, mat, tp_source)
    /\ spc = "sl" /\ QLt(conf_dir, Zero) =>
          Picked(<<"F127", "F161", "F200", "S1", "S2">>, mat, tp_source)
    /\ spc = "clip" /\ QLe(Zero, conf_dir) =>
          Picked(<<"S1", "S2", "RET236", "RET382", "RET500", "RET618",
                   "RET786">>, mat, sl_source)
    /\ spc = "clip" /\ QLt(conf_dir, Zero) =>
          Picked(<<"R1", "R2", "RET236", "RET382", "RET500", "RET618",
                   "RET786">>, mat, sl_source)

\* a short row's SL pick: RET382 wins a tie with two later candidates, the
\* earlier ones scoring less
C18_Witness ==
    /\ spc = "clip"
    /\ QLt(conf_dir, Zero)
    /\ sl_source = "RET382"
    /\ mat[4] = mat[6] /\ mat[4] = mat[7]
    /\ QLt(mat[1], mat[4])

\* the winning distance of a leg: the picked candidate's distance + eps, or
\* the initial 0 when no candidate was picked
Winning(source) == IF source = "NA" THEN Zero ELSE dists[source]

Nearest(x, lo, hi) == IF QLt(x, lo) THEN lo ELSE IF QLt(hi, x) THEN hi ELSE x

\* a row has been written out
RowOut == spc = "row" /\ ~IsNaN(tp_mult_suggested)

\* C19: every output row has tp_mult_suggested in [0.8, 3.0] and
\* sl_mult_suggested in [0.5, 1.6]; a winning distance outside the range is
\* reported as exactly the nearest bound, also when all distances are 0 or
\* no candidate was chosen.
C19_MultipliersClamped ==
    RowOut =>
        /\ QLe(Frac(4, 5), tp_mult_suggested) /\ QLe(tp_mult_suggested, Frac(3, 1))
        /\ QLe(Frac(1, 2), sl_mult_suggested) /\ QLe(sl_mult_suggested, Frac(8, 5))
        /\ tp_mult_suggested = Nearest(Winning(tp_source), Frac(4, 5), Frac(3, 1))
        /\ sl_mult_suggested = Nearest(Winning(sl_source), Frac(1, 2), Frac(8, 5))

\* a row whose TP distance is above 3.0 and whose SL distance is below 0.5
C19_Witness ==
    /\ RowOut
    /\ tp_source # "NA" /\ QLt(Frac(3, 1), dists[tp_source])
    /\ tp_mult_suggested = Frac(3, 1)
    /\ sl_source # "NA" /\ QLt(dists[sl_source], Frac(1, 2))
    /\ sl_mult_suggested = Frac(1, 2)

\* C20: in every output row tp_source is one of F127, F161, F200, R1, R2,
\* NA and sl_source is one of RET236, RET382, RET500, RET618, RET786, S1,
\* S2, NA, whatever the sign of the row's confidence direction.
C20_SourceLabels ==
    RowOut =>
        /\ tp_source \in {"F127", "F161", "F200", "R1", "R2", "NA"}
        /\ sl_source \in {"RET236", "RET382", "RET500", "RET618", "RET786",
                          "S1", "S2", "NA"}

---------------------------------------------------------------------------
\* the confidence read from the row is below the threshold
LowConf(cf) == QLt(QAbs(cf), conf_threshold)

\* the returned info dict is {}
InfoEmpty(r) ==
    [r EXCEPT !.kind = "none", !.reward = NaN, !.terminated = FALSE,
              !.action = 0 - 1, !.row_conf = NaN] = NoResult

\* a call of step() on a non-terminal state (reset() is the other operation
\* that can run there)
StepFromNonTerminal ==
    /\ epc = "ready"
    /\ env_i < env_n - 2
    /\ ~(epc' = "ready" /\ result' = NoResult)

\* C24: on a non-terminal step whose row has |conf_entry_final| below the
\* threshold no trade is simulated whatever action is requested, and every
\* step that simulates no trade (low confidence, or requested action 0)
\* advances the index by exactly one bar, returns reward 0, is not terminal
\* and returns an empty info dict.
C24_LowConfidenceGate ==
    [][StepFromNonTerminal =>
         /\ epc' = "scan" => ~LowConf(entry'.conf)
         /\ epc' = "ready" =>
              /\ result'.kind = "no_trade"
              /\ LowConf(result'.row_conf) \/ result'.action = 0
              /\ env_i' = env_i + 1
              /\ result'.reward = Zero
              /\ ~result'.terminated
              /\ InfoEmpty(result')
              /\ entry' = NoEntry /\ scan' = <<>>]_vars

\* a requested ENTER_SHORT on a row of confidence 0.2 was turned into NO_TRADE
\* at the second bar
C24_Witness ==
    /\ epc = "ready"
    /\ result.kind = "no_trade"
    /\ result.action = 2
    /\ result.row_conf = Frac(1, 5)
    /\ env_i = 2

\* the bar at which the last trade of the episode ended: the last bar the
\* loop examined
ExitBar == entry.idx + Len(scan)

\* C25: after a step that simulated a trade the decision index is the bar
\* after the exit bar, or the last bar n-1 when there is none; a later
\* decision (a call of step() that is not terminal) is never taken at a bar
\* up to the exit bar of an earlier trade of the episode, so a later trade
\* is entered after the earlier one has ended.
C25_NextDecisionAfterExit ==
    /\ Traded =>
         /\ entry.idx < ExitBar /\ ExitBar = last_exit /\ ExitBar <= env_n - 1
         /\ env_i = (IF ExitBar + 1 <= env_n - 1 THEN ExitBar + 1 ELSE env_n - 1)
    /\ epc = "ready" /\ env_i < env_n - 2 => env_i > last_exit
    /\ epc = "scan" => entry.idx > last_exit

\* a second trade of an episode, entered at the bar after the first one's
\* exit bar
C25_Witness ==
    /\ epc = "scan"
    /\ last_exit >= 1
    /\ entry.idx = last_exit + 1

\* C27: on a frame of n >= 1 rows, whatever the actions, the index stays in
\* 0 .. n-1 and the scan index of a trade stays in entry+1 .. n-1 (every row
\* read is in range); every call of step() made while i < n-2 strictly
\* increases i; the terminal branch returns terminated = True with reward 0
\* and leaves i unchanged; and at most n-1 calls of an episode are not
\* terminal, so the terminal branch is reached within n calls.
C27_IndexBoundedAndAdvancing ==
    [][/\ epc # "idle" => 0 <= env_i /\ env_i <= env_n - 1
       /\ epc' # "idle" => 0 <= env_i' /\ env_i' <= env_n' - 1
       /\ epc' = "scan" =>
            entry'.idx = env_i' /\ env_i' < j' /\ j' <= env_n' - 1
       /\ steps' = steps + 1 => env_i < env_n - 2 /\ env_i' > env_i
       /\ epc = "ready" /\ result'.kind = "terminal" =>
            /\ env_i >= env_n - 2
            /\ env_i' = env_i
            /\ result'.reward = Zero
            /\ result'.terminated
       /\ epc = "ready" /\ env_i >= env_n - 2 /\ result' # NoResult =>
            result'.kind = "terminal"
       /\ steps' <= env_i'
       /\ steps' + 1 <= env_n']_vars

\* the longest episode of a frame of at least 4 rows: n-2 NO_TRADE steps and
\* then the terminal branch
C27_Witness ==
    /\ epc = "ready"
    /\ env_n >= 4
    /\ steps = env_n - 2
    /\ env_i = env_n - 2
    /\ result.kind = "terminal"

\* C28: for every simulated trade, on either side, a TARGET exit has
\* pnl = +tp_dist and a STOP exit has pnl = -sl_dist, with tp_dist = atr*fTP,
\* fTP in [0.8, 3.0], sl_dist = atr*fSL, fSL in [0.5, 1.6]; a TARGET exit is
\* a strict win and a STOP exit a strict loss, and the target lies strictly
\* on the favourable side of the entry price and the stop strictly on the
\* adverse side, for every atr the env can read from the row.
C28_TargetWinsStopLoses ==
    Traded =>
        /\ QLe(tp_bounds[1], entry.fTP) /\ QLe(entry.fTP, tp_bounds[2])
        /\ QLe(sl_bounds[1], entry.fSL) /\ QLe(entry.fSL, sl_bounds[2])
        /\ entry.tp_dist = QMul(entry.atr, entry.fTP)
        /\ entry.sl_dist = QMul(entry.atr, entry.fSL)
        /\ result.hit_tp =>
             result.pnl = entry.tp_dist /\ QLt(Zero, result.pnl)
        /\ result.hit_sl =>
             result.pnl = QNeg(entry.sl_dist) /\ QLt(result.pnl, Zero)
        /\ entry.side = 1 =>
             QLt(entry.close, entry.tp_price) /\ QLt(entry.sl_price, entry.close)
        /\ entry.side = 0 - 1 =>
             QLt(entry.tp_price, entry.close) /\ QLt(entry.close, entry.sl_price)

\* the same with the sides and the strict signs asked only of trades on a
\* row whose atr is positive
C28_PositiveAtr ==
    Traded /\ QLt(Zero, entry.atr) =>
        /\ QLe(tp_bounds[1], entry.fTP) /\ QLe(entry.fTP, tp_bounds[2])
        /\ QLe(sl_bounds[1], entry.fSL) /\ QLe(entry.fSL, sl_bounds[2])
        /\ entry.tp_dist = QMul(entry.atr, entry.fTP)
        /\ entry.sl_dist = QMul(entry.atr, entry.fSL)
        /\ result.hit_tp =>
             result.pnl = entry.tp_dist /\ QLt(Zero, result.pnl)
        /\ result.hit_sl =>
             result.pnl = QNeg(entry.sl_dist) /\ QLt(result.pnl, Zero)
        /\ entry.side = 1 =>
             QLt(entry.close, entry.tp_price) /\ QLt(entry.sl_price, entry.close)
        /\ entry.side = 0 - 1 =>
             QLt(entry.tp_price, entry.close) /\ QLt(entry.close, entry.sl_price)

\* C29: a break-even trade (pnl = 0) on a row with atr > 0 and sentiment 0
\* gets reward 0, whatever conf, news volume, target and stop distances:
\* the conviction and risk-efficiency terms apply to winners and losers
\* only.
C29_BreakEvenNeutral ==
    Traded /\ result.pnl = Zero /\ QLt(Zero, entry.atr) /\ entry.sentiment = Zero
        => result.reward = Zero

---------------------------------------------------------------------------
\* C26: a HIGH is emitted only when leaving UP and a LOW only when leaving
\* DOWN, and the emission flips the direction; the pivot emitted on a bar
\* never has the type of the last pivot of the list, so the list is never
\* overwritten in place: a bar with a reversal appends exactly one pivot and
\* any other bar leaves the list as it is.
C26_PivotAppendedNeverOverwritten ==
    [][i' = i + 1 =>
         IF emitted' # "None"
         THEN /\ emitted' = (IF direction = UP THEN "H" ELSE "L")
              /\ direction \in {UP, DOWN} /\ direction' = 0 - direction
              /\ piv_types = <<>> \/ piv_types[Len(piv_types)] # emitted'
              /\ piv_types' = Append(piv_types, emitted')
              /\ Len(piv_prices') = Len(piv_prices) + 1
              /\ SubSeq(piv_prices', 1, Len(piv_prices)) = piv_prices
         ELSE piv_types' = piv_types /\ piv_prices' = piv_prices]_vars

\* a LOW has just been appended after a HIGH
C26_Witness ==
    /\ emitted = "L"
    /\ piv_types = <<"H", "L">>
    /\ Len(piv_prices) = 2

---------------------------------------------------------------------------
\* the accepted jobs that have not reached a final status
Unfinished == {k \in DOMAIN tasks : ~tasks[k].final}

BothBusy == gpu_jobs["cuda:0"] >= 1 /\ gpu_jobs["cuda:1"] >= 1

\* the tasks that are running on device d
RunningOn(d) ==
    {k \in DOMAIN tasks : tasks[k].phase = "running" /\ tasks[k].device = d}

\* C22: with CUDA available, gpu_jobs[d] never exceeds 1 and no device runs
\* two jobs at a time; a request that is accepted gets cuda:0 whenever
\* cuda:0 has no job, and cuda:1 only when cuda:0 has a job and cuda:1 has
\* none, and the counter of its device becomes 1; while both devices have a
\* job no request is accepted and nothing is registered, and a request that
\* passes the checks before the scheduler is answered 429; 429 is answered
\* only then.
C22_FillFirst ==
    [][cuda_available =>
         /\ \A d \in Devices :
              /\ gpu_jobs[d] <= 1 /\ gpu_jobs'[d] <= 1
              /\ Cardinality(RunningOn(d)) <= 1
         /\ response'.code = 200 =>
              /\ response'.device \in Devices
              /\ gpu_jobs["cuda:0"] = 0 => response'.device = "cuda:0"
              /\ response'.device = "cuda:1" =>
                   gpu_jobs["cuda:0"] = 1 /\ gpu_jobs["cuda:1"] = 0
              /\ gpu_jobs' = [gpu_jobs EXCEPT ![response'.device] = 1]
              /\ tasks'[Len(tasks')].device = response'.device
         /\ response'.code # 0 /\ BothBusy =>
              /\ response'.code \in {400, 401, 409, 429}
              /\ UNCHANGED <<active_jobs, gpu_jobs, tasks>>
              /\ response'.symbol # <<>>
                   /\ ~symbol_currently_running(active_jobs, response'.symbol)
                   => response'.code = 429
         /\ response'.code = 429 => BothBusy]_vars

\* a third request, for a symbol of its own, is answered 429 while the two
\* jobs accepted before it hold cuda:0 and cuda:1
C22_Witness ==
    /\ cuda_available
    /\ response.code = 429
    /\ response.symbol = <<"A">>
    /\ Len(tasks) = 2
    /\ tasks[1].device = "cuda:0" /\ tasks[2].device = "cuda:1"
    /\ gpu_jobs = [d \in Devices |-> 1]

\* the accepted jobs on device d that have not ended
JobsOn(d) == {k \in DOMAIN tasks : tasks[k].device = d}

====
